---- MODULE Spec2Model ----
(***************************************************************************)
(* x402Apes: the pay-then-mint endpoint (api/402.js and its                *)
(* resource-checking variant) and the X402Apes token contract it calls.    *)
(* The handler's atomic steps are the stretches of code between awaits.    *)
(***************************************************************************)
EXTENDS Integers, Sequences, FiniteSets, Bags, TLC

VARIABLES
    variant,        \* which handler file is deployed: "api402" | "part002"
    env,            \* process.env as destructured at module load
    receipts,       \* the ledger: txHash -> receipt (NoReceipt when unknown)
    latest,         \* provider.getBlockNumber()
    processedTxs,   \* const processedTxs = new Set()
    req,            \* per request slot: the handler invocation's locals and position
    owner,          \* Ownable.owner() of the X402Apes contract
    paused,         \* Pausable.paused()
    mintEnabled,    \* X402Apes.mintEnabled
    maxSupply,      \* X402Apes.maxSupply
    totalMinted,    \* X402Apes.totalMinted
    tokenOwner,     \* ERC721 _owners: minted token id -> holder
    mintCalls,      \* history: txHash -> number of nft.mintAfterPayment calls issued for it
    indeterminate,  \* history: txHashes whose mint was broadcast and whose wait then failed
    metadata,       \* usdcToken, treasury, priceUSDC, _baseTokenURI, _uriExtension and
                    \* the default royalty of ERC2981
    detached,       \* bag of the mint calls still pending whose invocation has ended
    callStack,      \* the calls to the contract in progress that wait inside
                    \* onERC721Received of a recipient, the outermost first
    lastTx          \* history: the call to the contract that ended last, with its
                    \* outcome, until it is taken note of

vars == <<variant, env, receipts, latest, processedTxs, req, owner, paused,
          mintEnabled, maxSupply, totalMinted, tokenOwner, metadata, mintCalls,
          indeterminate, detached, callStack, lastTx>>

\* ---------------------------------------------------------------- bounds
MaxLogs == 3          \* logs per receipt explored for verifyUsdcPayment
SupplyBound == 2      \* constructor argument maxSupply_
MaxUint == 7          \* type(uint256).max, scaled down
MaxDetached == 1      \* waits that were rejected while their transaction is still pending
MaxDepth == 1         \* calls to the contract nested in one another through onERC721Received

\* ------------------------------------------------------------- addresses
\* An address is an account together with the letter case it is written in;
\* String.prototype.toLowerCase and ethers.getAddress change only the case.
\* ethers.getAddress throws on a string that is no address.
Addr(a, f) == [acct |-> a, form |-> f]
NullAddr == Addr("null", "null")
Garbage == Addr("not-an-address", "invalid")
toLowerCase(addr) == IF addr.form = "checksum" THEN [addr EXCEPT !.form = "lower"] ELSE addr
IsAddress(addr) == addr.form \in {"lower", "checksum"}
getAddress(addr) == [addr EXCEPT !.form = "checksum"]

USDC == Addr("usdc", "checksum")
TREASURY == Addr("treasury", "checksum")
DAI == Addr("dai", "checksum")
P1 == Addr("p1", "checksum")
P2 == Addr("p2", "checksum")
SIGNER == Addr("signer", "checksum")
ADMIN == Addr("admin", "checksum")
\* The indexed arguments of a raw log are 32-byte topics, written in lower case.
p1 == Addr("p1", "lower")
p2 == Addr("p2", "lower")
treasury == Addr("treasury", "lower")

\* ----------------------------------------------------------- configuration
DefaultPrice == 10000000
PriceStrings == {"", "0", "5000000"}
BigInt(s) == CASE s = "0" -> 0 [] s = "5000000" -> 5000000
PRICE == IF env.X402_PRICE_USDC = "" THEN DefaultPrice ELSE BigInt(env.X402_PRICE_USDC)
DefaultResource == "mint:x402apes:1"
ConfiguredResource == IF env.X402_RESOURCE = "" THEN DefaultResource ELSE env.X402_RESOURCE
wallet == IF env.OWNER_PRIVATE_KEY THEN SIGNER ELSE NullAddr
\* Mutant: the contract object is built without looking at NFT_CONTRACT_ADDRESS.
nft_Unchecked == IF wallet # NullAddr THEN "X402Apes" ELSE "null"

nft == IF env.NFT_CONTRACT_ADDRESS /\ wallet # NullAddr THEN "X402Apes" ELSE "null"

\* ------------------------------------------------------- verifyUsdcPayment
NoReceipt == [found |-> FALSE, status |-> 0, block |-> 0, logs |-> <<>>]
Receipt(status, block, logs) == [found |-> TRUE, status |-> status, block |-> block, logs |-> logs]
Log(address, event, from, to, value) ==
    [address |-> address, event |-> event, from |-> from, to |-> to, value |-> value]

\* iface.parseLog: the Transfer fragment is the only one of ERC20_ABI; any other
\* event parses to null. Decoded address arguments come back checksummed.
NullParsed == [name |-> "null", args |-> [from |-> NullAddr, to |-> NullAddr, value |-> 0]]
parseLog(log) ==
    IF log.event = "Transfer"
    THEN [name |-> "Transfer",
          args |-> [from |-> getAddress(log.from), to |-> getAddress(log.to),
                    value |-> log.value]]
    ELSE NullParsed

LogIsUsdc(log) == toLowerCase(log.address) = toLowerCase(env.USDC_ADDRESS)

ToTreasury(parsed) == toLowerCase(parsed.args.to) = toLowerCase(env.TREASURY_ADDRESS)

\* Mutant: every qualifying transfer overwrites the payer (the last one wins).
VerifyStep_LastPayer(acc, log) ==
    IF ~LogIsUsdc(log) THEN acc
    ELSE LET parsed == parseLog(log) IN
         IF parsed.name = "Transfer" /\ ToTreasury(parsed)
         THEN [payer |-> parsed.args.from, paid |-> acc.paid + parsed.args.value]
         ELSE acc

\* One iteration of `for (const log of receipt.logs)`, acc = [payer, paid].
VerifyStep(acc, log) ==
    IF ~LogIsUsdc(log) THEN acc
    ELSE LET parsed == parseLog(log) IN
         IF parsed.name = "Transfer" /\ ToTreasury(parsed)
         THEN [payer |-> IF acc.payer = NullAddr THEN parsed.args.from ELSE acc.payer,
               paid |-> acc.paid + parsed.args.value]
         ELSE acc

RECURSIVE VerifyScan(_, _)
VerifyScan(logs, acc) ==
    IF logs = <<>> THEN acc
    ELSE VerifyScan(Tail(logs), VerifyStep(acc, Head(logs)))

\* A returned value or a thrown Error; paid and required are the numbers the
\* insufficient-amount message is built from.
Ok(v) == [ok |-> TRUE, value |-> v, error |-> "", paid |-> 0, required |-> 0]
Throw(msg) == [ok |-> FALSE, value |-> NullAddr, error |-> msg, paid |-> 0, required |-> 0]
Insufficient(paid, required) ==
    [Throw("Insufficient amount") EXCEPT !.paid = paid, !.required = required]

TxFailedMsg == IF variant = "api402" THEN "Transaction failed" ELSE "Transaction failed on-chain"

\* Mutant: the logs are inspected before the receipt's status.
verifyReceipt_LogsFirst(receipt) ==
    IF ~receipt.found THEN Throw("Transaction not found")
    ELSE LET acc == VerifyScan(receipt.logs, [payer |-> NullAddr, paid |-> 0]) IN
         IF acc.payer # NullAddr /\ acc.paid >= PRICE THEN Ok(getAddress(acc.payer))
         ELSE IF receipt.status # 1 THEN Throw(TxFailedMsg)
         ELSE IF acc.payer = NullAddr THEN Throw("No USDC Transfer to TREASURY found in tx")
         ELSE Insufficient(acc.paid, PRICE)

\* Mutant: a payment of exactly the price is refused (<= for <).
verifyReceipt_Inclusive(receipt) ==
    IF ~receipt.found THEN Throw("Transaction not found")
    ELSE IF receipt.status # 1 THEN Throw(TxFailedMsg)
    ELSE LET acc == VerifyScan(receipt.logs, [payer |-> NullAddr, paid |-> 0]) IN
         IF acc.payer = NullAddr THEN Throw("No USDC Transfer to TREASURY found in tx")
         ELSE IF acc.paid <= PRICE THEN Insufficient(acc.paid, PRICE)
         ELSE Ok(getAddress(acc.payer))

verifyReceipt(receipt) ==
    IF ~receipt.found THEN Throw("Transaction not found")
    ELSE IF receipt.status # 1 THEN Throw(TxFailedMsg)
    ELSE LET acc == VerifyScan(receipt.logs, [payer |-> NullAddr, paid |-> 0]) IN
         IF acc.payer = NullAddr THEN Throw("No USDC Transfer to TREASURY found in tx")
         ELSE IF acc.paid < PRICE THEN Insufficient(acc.paid, PRICE)
         ELSE Ok(getAddress(acc.payer))

verifyUsdcPayment(txHash) == verifyReceipt(receipts[txHash])

\* ------------------------------------------------------------ the ledger
TxHashes == {"0xAA", "0xBB"}
BlockAA == 100
BlockBB == 200
LatestBlock == 250
LookbackBlocks == 50000

\* 0xAA: one transfer of exactly the default price from P1 to the treasury.
ReceiptAA == Receipt(1, BlockAA, <<Log(USDC, "Transfer", p1, treasury, DefaultPrice)>>)
\* 0xBB is one of: two qualifying transfers from different sources, unknown to
\* the ledger, reverted, a transfer of another token, too small a transfer.
ReceiptsBB ==
    { Receipt(1, BlockBB, <<Log(USDC, "Transfer", p1, treasury, 4000000),
                            Log(USDC, "Transfer", p2, treasury, 6000000)>>),
      NoReceipt,
      Receipt(0, BlockBB, <<>>),
      Receipt(1, BlockBB, <<Log(DAI, "Transfer", p2, treasury, DefaultPrice)>>),
      Receipt(1, BlockBB, <<Log(USDC, "Transfer", p2, treasury, 4000000)>>) }

\* ------------------------------------------------- findLatestUsdcPaymentTxHash
\* The transactions of the ledger in ascending block order.
ChainOrder ==
    CHOOSE s \in [1..Cardinality(TxHashes) -> TxHashes] :
        /\ \A i, j \in DOMAIN s : i # j => s[i] # s[j]
        /\ \A i, j \in DOMAIN s : i < j => receipts[s[i]].block <= receipts[s[j]].block

Max(a, b) == IF a >= b THEN a ELSE b

\* One provider.getLogs entry: a log with the hash of its transaction.
RECURSIVE TxLogs(_, _)
TxLogs(txHash, logs) ==
    IF logs = <<>> THEN <<>>
    ELSE <<[transactionHash |-> txHash, log |-> Head(logs)]>> \o TxLogs(txHash, Tail(logs))

RECURSIVE AllLogs(_)
AllLogs(order) ==
    IF order = <<>> THEN <<>>
    ELSE LET rc == receipts[Head(order)] IN
         (IF rc.found /\ rc.status = 1 THEN TxLogs(Head(order), rc.logs) ELSE <<>>)
             \o AllLogs(Tail(order))

topicForAddress(addr) == getAddress(addr)

MatchesFilter(e, address, fromBlock, toBlock, fromTopic, toTopic) ==
    /\ e.log.address = getAddress(address)
    /\ e.log.event = "Transfer"
    /\ getAddress(e.log.from) = fromTopic
    /\ getAddress(e.log.to) = toTopic
    /\ receipts[e.transactionHash].block >= fromBlock
    /\ receipts[e.transactionHash].block <= toBlock

getLogs(address, fromBlock, toBlock, fromTopic, toTopic) ==
    SelectSeq(AllLogs(ChainOrder),
              LAMBDA e : MatchesFilter(e, address, fromBlock, toBlock, fromTopic, toTopic))

\* ------------------------------------------------------ the token contract
\* Accounts with code: HOOK implements onERC721Received and may call the
\* contract from it; VAULT does not implement it.
ZeroAddress == Addr("zero", "checksum")
HOOK == Addr("hook", "checksum")
VAULT == Addr("vault", "checksum")
SupplyArgs == 0..SupplyBound

\* ReentrancyGuard: _status is ENTERED while a mintAfterPayment or airdrop
\* call is in progress.
Entered == \E k \in DOMAIN callStack : callStack[k].call.fn \in {"mintAfterPayment", "airdrop"}

\* Mutant: the capacity is tested before the quantity.
MintRevert_SoldOutFirst(sender, quantity) ==
    IF sender # owner THEN "OwnableUnauthorizedAccount"
    ELSE IF paused THEN "EnforcedPause"
    ELSE IF Entered THEN "ReentrancyGuardReentrantCall"
    ELSE IF ~mintEnabled THEN "MintDisabled"
    ELSE IF totalMinted >= maxSupply THEN "SoldOut"
    ELSE IF quantity = 0 THEN "QuantityZero"
    ELSE IF totalMinted + quantity > MaxUint THEN "Panic"
    ELSE IF totalMinted + quantity > maxSupply THEN "MaxSupplyExceeded"
    ELSE ""

\* The modifiers (onlyOwner, whenNotPaused, nonReentrant) and checks of
\* mintAfterPayment in their order; "" when the call goes through.
MintRevert(sender, quantity) ==
    IF sender # owner THEN "OwnableUnauthorizedAccount"
    ELSE IF paused THEN "EnforcedPause"
    ELSE IF Entered THEN "ReentrancyGuardReentrantCall"
    ELSE IF ~mintEnabled THEN "MintDisabled"
    ELSE IF quantity = 0 THEN "QuantityZero"
    ELSE IF totalMinted >= maxSupply THEN "SoldOut"
    ELSE IF totalMinted + quantity > MaxUint THEN "Panic"
    ELSE IF totalMinted + quantity > maxSupply THEN "MaxSupplyExceeded"
    ELSE ""

\* The contract's storage as one value.
ContractState ==
    [owner |-> owner, paused |-> paused, mintEnabled |-> mintEnabled,
     maxSupply |-> maxSupply, totalMinted |-> totalMinted, tokenOwner |-> tokenOwner,
     metadata |-> metadata]

\* The storage becomes st.
Install(st) ==
    /\ owner' = st.owner
    /\ paused' = st.paused
    /\ mintEnabled' = st.mintEnabled
    /\ maxSupply' = st.maxSupply
    /\ totalMinted' = st.totalMinted
    /\ tokenOwner' = st.tokenOwner
    /\ metadata' = st.metadata

\* No call to the contract has ended since the last one was taken note of.
NoTx == [fn |-> "", sender |-> NullAddr, recipients |-> <<>>, quantity |-> 0,
         flag |-> FALSE, depth |-> 0, minted |-> 0, revert |-> "", assigned |-> <<>>,
         gateClosed |-> FALSE]

\* A call of `fn` by `sender`, made now: depth is the number of calls in
\* progress around it (0 for a transaction's own call), minted is totalMinted
\* at its entry, revert the error its modifiers and checks raise ("" when it
\* goes through); assigned lists the _safeMint calls it has made, gateClosed
\* tells that one of them ran while the contract was paused or, in
\* mintAfterPayment, while minting was disabled.
Tx(fn, sender, recipients, quantity, flag, revert) ==
    [fn |-> fn, sender |-> sender, recipients |-> recipients, quantity |-> quantity,
     flag |-> flag, depth |-> Len(callStack), minted |-> totalMinted, revert |-> revert,
     assigned |-> <<>>, gateClosed |-> FALSE]

\* The call reverts: what it did is undone.
Reverts(call, reason) ==
    [call EXCEPT !.revert = reason, !.assigned = <<>>, !.gateClosed = FALSE]

\* How far a call has run: it returned, it reverted, or it is inside
\* onERC721Received of the i-th recipient (callback); st is the storage then.
Returned(call, st) == [kind |-> "returned", call |-> call, st |-> st, i |-> 0]
Reverted(call, reason) ==
    [kind |-> "reverted", call |-> Reverts(call, reason), st |-> ContractState, i |-> 0]
Callback(call, st, i) == [kind |-> "callback", call |-> call, st |-> st, i |-> i]

\* Mutant: the token is recorded one id too low.
safeMint_IdBelow(holders, to, tokenId) ==
    [id \in DOMAIN holders \cup {tokenId - 1} |-> IF id = tokenId - 1 THEN to ELSE holders[id]]

\* _mint(to, tokenId) of the inherited ERC721: the token's holder is recorded.
safeMint(holders, to, tokenId) ==
    [id \in DOMAIN holders \cup {tokenId} |-> IF id = tokenId THEN to ELSE holders[id]]

\* The reverts of _safeMint(to, tokenId) that do not depend on the recipient's
\* code running: the zero address, a token that exists, a contract without
\* onERC721Received.
SafeMintRevert(holders, to, tokenId) ==
    IF to = ZeroAddress THEN "ERC721InvalidReceiver"
    ELSE IF tokenId \in DOMAIN holders THEN "ERC721InvalidSender"
    ELSE IF to = VAULT THEN "ERC721InvalidReceiver"
    ELSE ""

\* The accounts that may own the contract and those that may hold a token.
Owners == {SIGNER, HOOK, P1}
Holders == {P1, HOOK, VAULT}

\* The recipients of the _safeMint calls of a minting call, in order.
LoopRecipients(call) ==
    IF call.fn = "airdrop" THEN call.recipients
    ELSE [k \in 1..call.quantity |-> call.recipients[1]]

\* for (i = 0; i < len; ) { _safeMint(recipients[i], totalMinted + 1); totalMinted++; i++ }
\* from the i-th recipient on (i counts from 1 here), on storage st: the loop
\* runs to its end, or to a revert of _safeMint, or until _safeMint, having
\* recorded the holder, calls onERC721Received on a recipient with code;
\* totalMinted is incremented after that call has returned.
RECURSIVE SafeMintLoop(_, _, _)
SafeMintLoop(call, st, i) ==
    IF i > Len(LoopRecipients(call)) THEN Returned(call, st)
    ELSE LET to == LoopRecipients(call)[i]
             tokenId == st.totalMinted + 1
             recorded == [st EXCEPT !.tokenOwner = safeMint(st.tokenOwner, to, tokenId)]
             made == [call EXCEPT
                        !.assigned = Append(@, [id |-> tokenId, to |-> to]),
                        !.gateClosed = \/ @
                                       \/ st.paused
                                       \/ (call.fn = "mintAfterPayment" /\ ~st.mintEnabled)]
         IN  IF SafeMintRevert(st.tokenOwner, to, tokenId) # ""
             THEN Reverted(call, SafeMintRevert(st.tokenOwner, to, tokenId))
             ELSE IF to = HOOK
             THEN Callback(made, recorded, i)
             ELSE SafeMintLoop(made, [recorded EXCEPT !.totalMinted = @ + 1], i + 1)

\* mintAfterPayment(payer, quantity) called by `sender`: how far it runs.
mintAfterPayment(sender, payer, quantity) ==
    LET call == Tx("mintAfterPayment", sender, <<payer>>, quantity, FALSE, "") IN
    IF MintRevert(sender, quantity) # "" THEN Reverted(call, MintRevert(sender, quantity))
    ELSE SafeMintLoop(call, ContractState, 1)

\* constructor(.., maxSupply_, baseURI_, initialOwner_, usdcToken_, treasury_,
\* priceUSDC_, royaltyReceiver_, royaltyFeeNumerator_): the payment context,
\* the token URI parts and the default royalty as deployed.
NoRoyalty == [receiver |-> ZeroAddress, feeNumerator |-> 0]
Deployed ==
    [usdcToken |-> USDC, treasury |-> TREASURY, priceUSDC |-> DefaultPrice,
     baseTokenURI |-> "ipfs://apes/", uriExtension |-> ".json", defaultRoyalty |-> NoRoyalty]

\* No call that has ended awaits being taken note of.
Ready == lastTx = NoTx

contractAdmin == <<owner, paused, mintEnabled, maxSupply>>
contractVars == <<owner, paused, mintEnabled, maxSupply, totalMinted, tokenOwner, metadata>>

\* ------------------------------------------------------------ the handler
\* Two invocations of the handler may be in progress at the same time.
Slots == {1, 2}

NoResponse == [status |-> 0, error |-> "", paid |-> 0, required |-> 0, note |-> "",
               mintedTo |-> NullAddr, txHash |-> ""]
ErrorResponse(status, msg) == [NoResponse EXCEPT !.status = status, !.error = msg]
AlreadyProcessed(txHash) ==
    [NoResponse EXCEPT !.status = 200, !.note = "Already processed", !.txHash = txHash]
Minted(payer) ==
    [NoResponse EXCEPT !.status = 200, !.note = "Minted", !.mintedTo = payer]
Descriptor(status) == [NoResponse EXCEPT !.status = status, !.note = "x402Response"]

MisconfiguredMsg == "Server misconfigured: missing OWNER_PRIVATE_KEY or NFT_CONTRACT_ADDRESS"
NotOwnerMsg == "Misconfiguration: signer is not contract owner"

Methods == {"GET", "POST", "DELETE"}
\* Request bodies: each txHash, or none, with the configured resource, one
\* body with another resource and one without a resource.
Bodies == [txHash : TxHashes \cup {""}, resource : {DefaultResource}]
          \cup {[txHash |-> "0xAA", resource |-> "mint:other"],
                [txHash |-> "0xAA", resource |-> ""]}
PayerHeaders == {NullAddr, p2}
PayerQueries == {NullAddr, Garbage}

\* The arguments of the nft.mintAfterPayment call an invocation has issued.
NoCall == [payer |-> NullAddr, quantity |-> 0]

\* A free slot: no invocation of the handler runs in it. tx is the state of the
\* transaction the invocation broadcast: "none", "pending", "success" or the
\* error it reverted with.
Idle == [pc |-> "idle", method |-> "", body |-> [txHash |-> "", resource |-> ""],
         payerHint |-> NullAddr, txHash |-> "", payer |-> NullAddr, latestRead |-> 0,
         call |-> NoCall, tx |-> "none", reads |-> 0, late |-> FALSE, res |-> NoResponse]

\* res.status(..).json(..): the invocation ends.
Respond(slot, response) == [slot EXCEPT !.pc = "done", !.res = response]

\* The catch clause: status 500 with err.message.
Catch(slot, msg) == Respond(slot, ErrorResponse(500, msg))
CatchThrown(slot, err) ==
    Respond(slot, [ErrorResponse(500, err.error) EXCEPT !.paid = err.paid,
                                                        !.required = err.required])
\* An awaited Chain Reader call is made.
Await(slot, pc) == [slot EXCEPT !.pc = pc, !.reads = @ + 1]

\* Mutant: the processed check is left out.
CheckProcessed_Skip(slot, txHash) == Await([slot EXCEPT !.txHash = txHash], "receipt")

\* processedTxs.has(txHash), then the call of verifyUsdcPayment, which awaits the receipt.
CheckProcessed(slot, txHash) ==
    IF txHash \in processedTxs
    THEN Respond([slot EXCEPT !.txHash = txHash], AlreadyProcessed(txHash))
    ELSE Await([slot EXCEPT !.txHash = txHash], "receipt")

\* api/402.js up to its first await. payerHint is read on the discovery path
\* only and is kept in the slot on that path only.
PostApi402(slot, header, query) ==
    LET payerHint == IF header # NullAddr THEN header ELSE query
        s == [slot EXCEPT !.payerHint = payerHint]
    IN  IF wallet = NullAddr \/ nft = "null"
        THEN Respond(slot, ErrorResponse(500, MisconfiguredMsg))
        ELSE IF slot.body.txHash = ""
        THEN IF payerHint = NullAddr
             THEN Respond(s, ErrorResponse(400, "Missing txHash and payer; cannot infer payment"))
             ELSE IF ~IsAddress(payerHint) THEN Catch(s, "invalid address")
             ELSE Await(s, "blockNumber")
        ELSE CheckProcessed(slot, slot.body.txHash)

\* The resource-checking variant up to its first await.
PostPart002(slot) ==
    IF wallet = NullAddr \/ nft = "null" THEN Catch(slot, MisconfiguredMsg)
    ELSE IF slot.body.resource = "" \/ slot.body.txHash = ""
    THEN Respond(slot, ErrorResponse(400, "Missing resource or txHash"))
    ELSE IF slot.body.resource # ConfiguredResource
    THEN Respond(slot, ErrorResponse(400, "Invalid resource"))
    ELSE CheckProcessed(slot, slot.body.txHash)

\* The body and the payer hint are read on the POST path only.
handler(method, body, header, query) ==
    LET slot == [Idle EXCEPT !.method = method, !.body = body,
                             !.late = body.txHash \in indeterminate]
    IN  IF method = "GET"
        THEN Respond([Idle EXCEPT !.method = method],
                     Descriptor(IF variant = "api402" THEN 402 ELSE 200))
        ELSE IF method = "POST"
        THEN IF variant = "api402" THEN PostApi402(slot, header, query) ELSE PostPart002(slot)
        ELSE Respond([Idle EXCEPT !.method = method], ErrorResponse(405, "Method not allowed"))

\* No response is being delivered: a slot that has responded is freed before
\* anything else runs.
Quiet == \A r \in Slots : req[r].pc # "done"

handlerFrame == <<variant, env, receipts, latest>>

\* A request arrives and the handler runs to its first await or to its response.
Arrive(r) ==
    /\ Quiet
    /\ req[r].pc = "idle"
    /\ \A q \in Slots : q < r => req[q].pc # "idle"
    /\ \E method \in Methods, body \in Bodies, header \in PayerHeaders, query \in PayerQueries :
           req' = [req EXCEPT ![r] = handler(method, body, header, query)]
    /\ UNCHANGED <<handlerFrame, lastTx, callStack, detached, contractVars, processedTxs, mintCalls, indeterminate>>

\* const latest = await provider.getBlockNumber(); then the getLogs call.
BlockNumberReturns(r) ==
    /\ Quiet
    /\ req[r].pc = "blockNumber"
    /\ req' = [req EXCEPT ![r] = Await([req[r] EXCEPT !.latestRead = latest], "getLogs")]
    /\ UNCHANGED <<handlerFrame, lastTx, callStack, detached, contractVars, processedTxs, mintCalls, indeterminate>>

\* Mutant: the scan starts at block 0.
findLatestLogs_WholeChain(payer, latestBlock) ==
    getLogs(env.USDC_ADDRESS, 0, latestBlock,
            topicForAddress(payer), topicForAddress(env.TREASURY_ADDRESS))

findLatestLogs(payer, latestBlock) ==
    getLogs(env.USDC_ADDRESS, Max(0, latestBlock - LookbackBlocks), latestBlock,
            topicForAddress(payer), topicForAddress(env.TREASURY_ADDRESS))

\* const logs = await provider.getLogs(..); the rest of findLatestUsdcPaymentTxHash:
\* it returns the transactionHash of the last log or throws; "" stands for
\* the throw. The handler's await of it resumes in a later step.
GetLogsReturns(r) ==
    /\ Quiet
    /\ req[r].pc = "getLogs"
    /\ LET logs == findLatestLogs(req[r].payerHint, req[r].latestRead) IN
       req' = [req EXCEPT ![r] =
                 [req[r] EXCEPT !.pc = "discovered",
                                !.txHash = IF Len(logs) = 0 THEN ""
                                           ELSE logs[Len(logs)].transactionHash]]
    /\ UNCHANGED <<handlerFrame, lastTx, callStack, detached, contractVars, processedTxs, mintCalls, indeterminate>>

\* txHash = await findLatestUsdcPaymentTxHash(payerHint) resumes: the catch
\* clause when it threw, else the handler's processed check.
DiscoveryReturns(r) ==
    /\ Quiet
    /\ req[r].pc = "discovered"
    /\ req' = [req EXCEPT ![r] =
                 IF req[r].txHash = ""
                 THEN Catch(req[r], "No recent USDC payment from payer to treasury")
                 ELSE CheckProcessed(req[r], req[r].txHash)]
    /\ UNCHANGED <<handlerFrame, lastTx, callStack, detached, contractVars, processedTxs, mintCalls, indeterminate>>

\* Mutant: the token goes to the payer the caller named, when it named one.
IssueMint_ToHint(slot) ==
    [slot EXCEPT !.pc = "send",
                 !.call = [payer |-> IF slot.payerHint # NullAddr
                                     THEN getAddress(slot.payerHint) ELSE slot.payer,
                           quantity |-> 1]]

\* nft.mintAfterPayment(payer, 1, {gasLimit}) is called: one more call for the txHash.
IssueMint(slot) ==
    [slot EXCEPT !.pc = "send", !.call = [payer |-> slot.payer, quantity |-> 1]]
\* The history counts 0, 1 and "2 or more".
CountCall(txHash) ==
    [mintCalls EXCEPT ![txHash] = IF @ < 2 THEN @ + 1 ELSE @]

\* Mutant: the mint call is issued whatever verifyUsdcPayment delivers.
ReceiptReturns_MintsUnverified(r) ==
    /\ Quiet
    /\ req[r].pc = "receipt"
    /\ req' = [req EXCEPT ![r] =
                 IssueMint([req[r] EXCEPT !.payer = verifyUsdcPayment(req[r].txHash).value])]
    /\ mintCalls' = CountCall(req[r].txHash)
    /\ UNCHANGED <<handlerFrame, lastTx, callStack, detached, contractVars, processedTxs, indeterminate>>

\* The receipt arrives; verifyUsdcPayment runs to its end; the handler goes on to
\* the owner() read (api/402.js) or straight to the mint call.
ReceiptReturns(r) ==
    /\ Quiet
    /\ req[r].pc = "receipt"
    /\ LET v == verifyUsdcPayment(req[r].txHash)
           s == [req[r] EXCEPT !.payer = v.value]
       IN  IF ~v.ok
           THEN /\ req' = [req EXCEPT ![r] = CatchThrown(req[r], v)]
                /\ UNCHANGED mintCalls
           ELSE IF variant = "api402"
           THEN /\ req' = [req EXCEPT ![r] = Await(s, "owner")]
                /\ UNCHANGED mintCalls
           ELSE /\ req' = [req EXCEPT ![r] = IssueMint(s)]
                /\ mintCalls' = CountCall(req[r].txHash)
    /\ UNCHANGED <<handlerFrame, lastTx, callStack, detached, contractVars, processedTxs, indeterminate>>

\* const onchainOwner = await nft.owner(); the pre-check; then the mint call.
OwnerReturns(r) ==
    /\ Quiet
    /\ req[r].pc = "owner"
    /\ IF toLowerCase(owner) # toLowerCase(wallet)
       THEN /\ req' = [req EXCEPT ![r] = Respond(req[r], ErrorResponse(400, NotOwnerMsg))]
            /\ UNCHANGED mintCalls
       ELSE /\ req' = [req EXCEPT ![r] = IssueMint(req[r])]
            /\ mintCalls' = CountCall(req[r].txHash)
    /\ UNCHANGED <<handlerFrame, lastTx, callStack, detached, contractVars, processedTxs, indeterminate>>

\* The mint call's promise resolves: the signed transaction was broadcast.
SendReturns(r) ==
    /\ Quiet
    /\ req[r].pc = "send"
    /\ req' = [req EXCEPT ![r] = [req[r] EXCEPT !.pc = "wait", !.tx = "pending"]]
    /\ UNCHANGED <<handlerFrame, lastTx, callStack, detached, contractVars, processedTxs, mintCalls, indeterminate>>

\* An awaited provider or signer call rejects before anything was broadcast.
RpcFails(r) ==
    /\ Quiet
    /\ req[r].pc \in {"blockNumber", "getLogs", "receipt", "owner", "send"}
    /\ req' = [req EXCEPT ![r] = Catch(req[r], "could not detect network")]
    /\ UNCHANGED <<handlerFrame, lastTx, callStack, detached, contractVars, processedTxs, mintCalls, indeterminate>>

\* The ledger includes the broadcast transaction: the contract runs
\* mintAfterPayment(payer, 1) with msg.sender the handler's wallet.
Mine(r) ==
    /\ Quiet
    /\ req[r].tx = "pending"
    /\ LET out == mintAfterPayment(wallet, req[r].call.payer, req[r].call.quantity) IN
          /\ out.kind # "callback"
          /\ Install(out.st)
          /\ req' = [req EXCEPT ![r].tx = IF out.call.revert = "" THEN "success"
                                          ELSE out.call.revert]
    /\ UNCHANGED <<handlerFrame, lastTx, callStack, detached, processedTxs, mintCalls, indeterminate>>

\* Mutant: the txHash is marked processed whatever tx.wait() delivers.
WaitReturns_MarksOnRevert(r) ==
    /\ Quiet
    /\ req[r].pc = "wait"
    /\ req[r].tx \notin {"none", "pending"}
    /\ processedTxs' = processedTxs \cup {req[r].txHash}
    /\ req' = [req EXCEPT ![r] =
                 IF req[r].tx = "success" THEN Respond(req[r], Minted(req[r].payer))
                 ELSE Catch(req[r], "transaction execution reverted")]
    /\ UNCHANGED <<handlerFrame, lastTx, callStack, detached, contractVars, mintCalls, indeterminate>>

\* const rec = await tx.wait() returns or throws; on return the txHash is
\* marked processed and the success response sent.
WaitReturns(r) ==
    /\ Quiet
    /\ req[r].pc = "wait"
    /\ req[r].tx \notin {"none", "pending"}
    /\ IF req[r].tx = "success"
       THEN /\ processedTxs' = processedTxs \cup {req[r].txHash}
            /\ req' = [req EXCEPT ![r] = Respond(req[r], Minted(req[r].payer))]
       ELSE /\ req' = [req EXCEPT ![r] = Catch(req[r], "transaction execution reverted")]
            /\ UNCHANGED processedTxs
    /\ UNCHANGED <<handlerFrame, lastTx, callStack, detached, contractVars, mintCalls, indeterminate>>

\* tx.wait() rejects without a verdict on the transaction (the connection is
\* lost, the transaction is replaced): it may be pending, included or reverted.
WaitFails(r) ==
    /\ Quiet
    /\ req[r].pc = "wait"
    /\ req[r].tx = "pending" => BagCardinality(detached) < MaxDetached
    /\ req' = [req EXCEPT ![r] = Catch(req[r], "timeout")]
    /\ indeterminate' = indeterminate \cup {req[r].txHash}
    /\ UNCHANGED <<handlerFrame, lastTx, callStack, detached, contractVars, processedTxs, mintCalls>>

\* The response is delivered and the slot is free again. Slots are kept in
\* order of arrival: the invocations behind the one that ended move up. A
\* transaction the invocation broadcast and that is not included yet stays
\* pending.
Release(r) ==
    /\ req[r].pc = "done"
    /\ req' = [q \in Slots |-> IF q < r THEN req[q]
                               ELSE IF q + 1 \in Slots THEN req[q + 1] ELSE Idle]
    /\ detached' = IF req[r].tx = "pending" THEN detached (+) SetToBag({req[r].call})
                   ELSE detached
    /\ UNCHANGED <<handlerFrame, lastTx, callStack, contractVars, processedTxs, mintCalls, indeterminate>>

\* The ledger includes a pending transaction whose invocation has ended.
MineDetached ==
    /\ Quiet
    /\ \E call \in BagToSet(detached) :
          /\ LET out == mintAfterPayment(wallet, call.payer, call.quantity) IN
                out.kind # "callback" /\ Install(out.st)
          /\ detached' = detached (-) SetToBag({call})
    /\ UNCHANGED <<handlerFrame, lastTx, callStack, processedTxs, req, mintCalls, indeterminate>>

\* ------------------------------------------- the owner's administrative calls
transferOwnership(newOwner) ==
    /\ Quiet
    /\ newOwner # owner
    /\ owner' = newOwner
    /\ UNCHANGED <<handlerFrame, lastTx, callStack, detached, paused, mintEnabled, maxSupply,
                   totalMinted, tokenOwner, metadata, processedTxs, req, mintCalls,
                   indeterminate>>

\* ----------------------------------------------------------- specification
Envs == [OWNER_PRIVATE_KEY : BOOLEAN, NFT_CONTRACT_ADDRESS : BOOLEAN,
         X402_PRICE_USDC : {""}, X402_RESOURCE : {""},
         USDC_ADDRESS : {USDC}, TREASURY_ADDRESS : {TREASURY}]

InitContract ==
    /\ owner = SIGNER
    /\ paused = FALSE
    /\ mintEnabled = TRUE
    /\ maxSupply = SupplyBound
    /\ totalMinted = 0
    /\ tokenOwner = <<>>
    /\ metadata = Deployed

Init ==
    /\ variant \in {"api402", "part002"}
    /\ env \in Envs
    /\ \E bb \in ReceiptsBB : receipts = [t \in TxHashes |-> IF t = "0xAA" THEN ReceiptAA ELSE bb]
    /\ latest = LatestBlock
    /\ processedTxs = {}
    /\ req = [r \in Slots |-> Idle]
    /\ InitContract
    /\ mintCalls = [t \in TxHashes |-> 0]
    /\ indeterminate = {}
    /\ detached = EmptyBag
    /\ callStack = <<>>
    /\ lastTx = NoTx

Next ==
    \/ \E r \in Slots : Arrive(r)
    \/ \E r \in Slots : BlockNumberReturns(r)
    \/ \E r \in Slots : GetLogsReturns(r)
    \/ \E r \in Slots : DiscoveryReturns(r)
    \/ \E r \in Slots : ReceiptReturns(r)
    \/ \E r \in Slots : OwnerReturns(r)
    \/ \E r \in Slots : SendReturns(r)
    \/ \E r \in Slots : RpcFails(r)
    \/ \E r \in Slots : Mine(r)
    \/ \E r \in Slots : WaitReturns(r)
    \/ \E r \in Slots : WaitFails(r)
    \/ \E r \in Slots : Release(r)
    \/ MineDetached
    \/ transferOwnership(ADMIN)

Spec == Init /\ [][Next]_vars

\* ------------------------------------- specification: verifyUsdcPayment alone
\* One proof, 0xBB, whose receipt ranges over every log list up to MaxLogs
\* logs, posted again and again by one caller; the configured addresses are
\* written in either case and the price is the default, 0 or 5 USDC.
LogAlphabet ==
    { Log(USDC, "Transfer", f, treasury, v) : f \in {p1, p2}, v \in {4000000, 6000000} }
    \cup { Log(USDC, "Transfer", p2, treasury, 0),
           Log(DAI, "Transfer", p2, treasury, DefaultPrice),
           Log(USDC, "Approval", p2, treasury, DefaultPrice),
           Log(USDC, "Transfer", p2, p1, DefaultPrice) }

LogLists == UNION { [1..n -> LogAlphabet] : n \in 0..MaxLogs }

EnvsVerify ==
    { [OWNER_PRIVATE_KEY |-> TRUE, NFT_CONTRACT_ADDRESS |-> TRUE, X402_PRICE_USDC |-> price,
       X402_RESOURCE |-> "", USDC_ADDRESS |-> Addr("usdc", f),
       TREASURY_ADDRESS |-> Addr("treasury", f)] : price \in PriceStrings, f \in {"lower", "checksum"} }

InitVerify ==
    /\ variant \in {"api402", "part002"}
    /\ env \in EnvsVerify
    /\ \E logs \in LogLists, status \in {0, 1}, found \in BOOLEAN :
          receipts = [t \in TxHashes |->
                        IF t = "0xAA" THEN ReceiptAA
                        ELSE IF found THEN Receipt(status, BlockBB, logs) ELSE NoReceipt]
    /\ latest = LatestBlock
    /\ processedTxs = {}
    /\ req = [r \in Slots |-> Idle]
    /\ InitContract
    /\ mintCalls = [t \in TxHashes |-> 0]
    /\ indeterminate = {}
    /\ detached = EmptyBag
    /\ callStack = <<>>
    /\ lastTx = NoTx

\* POST { resource, txHash: "0xBB" }
ArriveProof(r) ==
    /\ Quiet
    /\ req[r].pc = "idle"
    /\ r = 1
    /\ req' = [req EXCEPT ![r] =
                 handler("POST", [txHash |-> "0xBB", resource |-> DefaultResource],
                         NullAddr, NullAddr)]
    /\ UNCHANGED <<handlerFrame, lastTx, callStack, detached, contractVars, processedTxs, mintCalls, indeterminate>>

NextVerify ==
    \/ \E r \in Slots : ArriveProof(r)
    \/ \E r \in Slots : ReceiptReturns(r)
    \/ \E r \in Slots : OwnerReturns(r)
    \/ \E r \in Slots : SendReturns(r)
    \/ \E r \in Slots : Mine(r)
    \/ \E r \in Slots : WaitReturns(r)
    \/ \E r \in Slots : Release(r)

SpecVerify == InitVerify /\ [][NextVerify]_vars

\* --------------------------------------- specification: the contract alone
\* Accounts send transactions to the X402Apes contract directly. A
\* transaction runs to its end or reverts before the next one starts; while
\* it is inside onERC721Received of HOOK, the calls to the contract are those
\* HOOK makes from there, each of which may in turn reach onERC721Received.
Accounts == Owners
\* Transfers: by the holder, plain and safe, by an approved operator, by an
\* account that is neither holder nor approved.
TransferCalls ==
    { [sender |-> P1, from |-> P1, safe |-> FALSE, approved |-> FALSE],
      [sender |-> P1, from |-> P1, safe |-> TRUE, approved |-> FALSE],
      [sender |-> HOOK, from |-> HOOK, safe |-> TRUE, approved |-> FALSE],
      [sender |-> HOOK, from |-> HOOK, safe |-> FALSE, approved |-> FALSE],
      [sender |-> HOOK, from |-> P1, safe |-> FALSE, approved |-> TRUE],
      [sender |-> P1, from |-> HOOK, safe |-> FALSE, approved |-> FALSE] }
Recipients == {P1, HOOK, VAULT, ZeroAddress}
Quantities == {0, 1, 2, MaxUint}
\* Airdrop lists: any length up to one past the capacity, and lists with
\* contract recipients and the zero address.
RecipientLists == { [i \in 1..n |-> P1] : n \in 0..(SupplyBound + 1) }
                  \cup {<<HOOK>>, <<HOOK, HOOK>>, <<HOOK, P1>>, <<P1, HOOK>>,
                        <<P1, VAULT>>, <<HOOK, ZeroAddress>>}

\* Mutant: any account passes the modifier.
onlyOwner_Anyone(sender) == ""

\* modifier onlyOwner
onlyOwner(sender) == IF sender # owner THEN "OwnableUnauthorizedAccount" ELSE ""

handlerVars == <<handlerFrame, processedTxs, req, mintCalls, indeterminate, detached>>

\* `sender` can make a call now: any account sends a transaction when none is
\* in execution; inside onERC721Received the caller is HOOK.
CanCall(sender) == callStack = <<>> \/ sender = HOOK

\* The call made in this step has run as far as `result` tells: it has ended
\* (returned, or reverted and left the storage as it was), or it is now
\* inside onERC721Received.
Enter(result) ==
    /\ result.kind = "callback" => Len(callStack) < MaxDepth
    /\ Install(result.st)
    /\ IF result.kind = "callback"
       THEN /\ callStack' = Append(callStack, [call |-> result.call, i |-> result.i,
                                               saved |-> ContractState])
            /\ lastTx' = NoTx
       ELSE /\ callStack' = callStack
            /\ lastTx' = result.call

\* mintAfterPayment(payer, quantity) called by `sender`
MintTx(sender, payer, quantity) ==
    /\ Ready
    /\ CanCall(sender)
    /\ Enter(mintAfterPayment(sender, payer, quantity))
    /\ UNCHANGED handlerVars

\* The modifiers and checks of airdrop in their order; "" when the call goes through.
AirdropRevert(sender, len) ==
    IF onlyOwner(sender) # "" THEN onlyOwner(sender)
    ELSE IF paused THEN "EnforcedPause"
    ELSE IF Entered THEN "ReentrancyGuardReentrantCall"
    ELSE IF len = 0 THEN "QuantityZero"
    ELSE IF totalMinted + len > MaxUint THEN "Panic"
    ELSE IF totalMinted + len > maxSupply THEN "MaxSupplyExceeded"
    ELSE ""

\* airdrop(recipients) called by `sender`
airdrop(sender, recipients) ==
    /\ Ready
    /\ CanCall(sender)
    /\ LET call == Tx("airdrop", sender, recipients, Len(recipients), FALSE, "") IN
       Enter(IF AirdropRevert(sender, Len(recipients)) # ""
             THEN Reverted(call, AirdropRevert(sender, Len(recipients)))
             ELSE SafeMintLoop(call, ContractState, 1))
    /\ UNCHANGED handlerVars

\* The reverts of transferFrom / safeTransferFrom(from, to, tokenId) of the
\* inherited ERC721, called by `sender`, that do not depend on the recipient's
\* code running; `approved` tells whether the holder has approved the sender
\* (the approvals themselves are not kept).
TransferFromRevert(sender, from, to, tokenId, safe, approved) ==
    IF to = ZeroAddress THEN "ERC721InvalidReceiver"
    ELSE IF tokenId \notin DOMAIN tokenOwner THEN "ERC721NonexistentToken"
    ELSE IF sender # tokenOwner[tokenId] /\ ~approved THEN "ERC721InsufficientApproval"
    ELSE IF tokenOwner[tokenId] # from THEN "ERC721IncorrectOwner"
    ELSE IF safe /\ to = VAULT THEN "ERC721InvalidReceiver"
    ELSE ""

\* transferFrom (safe = FALSE) or safeTransferFrom (safe = TRUE) called by
\* `sender`: safeTransferFrom calls onERC721Received on a recipient with code
\* after the holder is recorded.
transferFrom(sender, from, to, tokenId, safe, approved) ==
    /\ Ready
    /\ CanCall(sender)
    /\ LET call == Tx("transferFrom", sender, <<from, to>>, tokenId, safe, "")
           reason == TransferFromRevert(sender, from, to, tokenId, safe, approved)
           moved == [ContractState EXCEPT !.tokenOwner[tokenId] = to]
       IN  Enter(IF reason # "" THEN Reverted(call, reason)
                 ELSE IF safe /\ to = HOOK THEN Callback(call, moved, 0)
                 ELSE Returned(call, moved))
    /\ UNCHANGED handlerVars

\* onERC721Received of HOOK returns its selector: the call that made it runs
\* on. A minting call increments totalMinted and goes to its next recipient;
\* safeTransferFrom returns.
HookAnswers ==
    /\ Ready
    /\ callStack # <<>>
    /\ LET top == callStack[Len(callStack)]
           below == SubSeq(callStack, 1, Len(callStack) - 1)
           result == IF top.call.fn = "transferFrom" THEN Returned(top.call, ContractState)
                     ELSE SafeMintLoop(top.call,
                                       [ContractState EXCEPT !.totalMinted = @ + 1],
                                       top.i + 1)
       IN  /\ Install(IF result.kind = "reverted" THEN top.saved ELSE result.st)
           /\ IF result.kind = "callback"
              THEN /\ callStack' = Append(below, [top EXCEPT !.call = result.call,
                                                             !.i = result.i])
                   /\ lastTx' = NoTx
              ELSE /\ callStack' = below
                   /\ lastTx' = result.call
    /\ UNCHANGED handlerVars

\* The call in progress that called onERC721Received reverts with `reason`:
\* its storage is as at its entry.
Unwind(reason) ==
    LET top == callStack[Len(callStack)] IN
    /\ Install(top.saved)
    /\ callStack' = SubSeq(callStack, 1, Len(callStack) - 1)
    /\ lastTx' = Reverts(top.call, reason)

\* What _checkOnERC721Received reverts with when onERC721Received of HOOK
\* does not return its selector: ERC721InvalidReceiver when it returns
\* another value or reverts without data, else the data it reverted with.
HookData == {"ERC721InvalidReceiver", "no"}

HookRefuses(reason) ==
    /\ Ready
    /\ callStack # <<>>
    /\ Unwind(reason)
    /\ UNCHANGED handlerVars

\* onERC721Received does not catch the revert of the call it made last: it
\* reverts with the same data.
HookPropagates ==
    /\ callStack # <<>>
    /\ lastTx # NoTx
    /\ lastTx.depth = Len(callStack)
    /\ lastTx.revert # ""
    /\ Unwind(lastTx.revert)
    /\ UNCHANGED handlerVars

setMintEnabled(sender, enabled) ==
    /\ Ready
    /\ CanCall(sender)
    /\ mintEnabled' = IF onlyOwner(sender) = "" THEN enabled ELSE mintEnabled
    /\ lastTx' = Tx("setMintEnabled", sender, <<>>, 0, enabled, onlyOwner(sender))
    /\ UNCHANGED <<handlerVars, callStack, owner, paused, maxSupply, totalMinted, tokenOwner,
                   metadata>>

\* setPaymentContext(usdc, payToTreasury, priceUSDC_)
PaymentContexts ==
    { [usdcToken |-> USDC, treasury |-> TREASURY, priceUSDC |-> DefaultPrice],
      [usdcToken |-> DAI, treasury |-> P1, priceUSDC |-> 0] }

setPaymentContext(sender, ctx) ==
    /\ Ready
    /\ CanCall(sender)
    /\ metadata' = IF onlyOwner(sender) = ""
                   THEN [metadata EXCEPT !.usdcToken = ctx.usdcToken,
                                         !.treasury = ctx.treasury,
                                         !.priceUSDC = ctx.priceUSDC]
                   ELSE metadata
    /\ lastTx' = Tx("setPaymentContext", sender, <<>>, 0, FALSE, onlyOwner(sender))
    /\ UNCHANGED <<handlerVars, callStack, owner, paused, mintEnabled, maxSupply, totalMinted,
                   tokenOwner>>

\* setBaseURI(newBaseURI, extension)
BaseURIs == { [base |-> "ipfs://apes/", extension |-> ".json"],
              [base |-> "", extension |-> ""] }

setBaseURI(sender, uri) ==
    /\ Ready
    /\ CanCall(sender)
    /\ metadata' = IF onlyOwner(sender) = ""
                   THEN [metadata EXCEPT !.baseTokenURI = uri.base,
                                         !.uriExtension = uri.extension]
                   ELSE metadata
    /\ lastTx' = Tx("setBaseURI", sender, <<>>, 0, FALSE, onlyOwner(sender))
    /\ UNCHANGED <<handlerVars, callStack, owner, paused, mintEnabled, maxSupply, totalMinted,
                   tokenOwner>>

\* setDefaultRoyalty(receiver, feeNumerator): _setDefaultRoyalty of the
\* inherited ERC2981 rejects a fee above the denominator, then the zero address.
Royalties == [receiver : {P1, ZeroAddress}, feeNumerator : {500, 10001}]

SetDefaultRoyaltyRevert(sender, royalty) ==
    IF onlyOwner(sender) # "" THEN onlyOwner(sender)
    ELSE IF royalty.feeNumerator > 10000 THEN "ERC2981InvalidDefaultRoyalty"
    ELSE IF royalty.receiver = ZeroAddress THEN "ERC2981InvalidDefaultRoyaltyReceiver"
    ELSE ""

setDefaultRoyalty(sender, royalty) ==
    /\ Ready
    /\ CanCall(sender)
    /\ metadata' = IF SetDefaultRoyaltyRevert(sender, royalty) = ""
                   THEN [metadata EXCEPT !.defaultRoyalty = royalty]
                   ELSE metadata
    /\ lastTx' = Tx("setDefaultRoyalty", sender, <<>>, 0, FALSE,
                    SetDefaultRoyaltyRevert(sender, royalty))
    /\ UNCHANGED <<handlerVars, callStack, owner, paused, mintEnabled, maxSupply, totalMinted,
                   tokenOwner>>

SetMaxSupplyRevert(sender, newMaxSupply) ==
    IF onlyOwner(sender) # "" THEN onlyOwner(sender)
    ELSE IF ~(newMaxSupply >= totalMinted) THEN "cannot set below minted"
    ELSE ""

setMaxSupply(sender, newMaxSupply) ==
    /\ Ready
    /\ CanCall(sender)
    /\ maxSupply' = IF SetMaxSupplyRevert(sender, newMaxSupply) = "" THEN newMaxSupply
                    ELSE maxSupply
    /\ lastTx' = Tx("setMaxSupply", sender, <<>>, newMaxSupply, FALSE,
                    SetMaxSupplyRevert(sender, newMaxSupply))
    /\ UNCHANGED <<handlerVars, callStack, owner, paused, mintEnabled, totalMinted, tokenOwner,
                   metadata>>

PauseRevert(sender) ==
    IF onlyOwner(sender) # "" THEN onlyOwner(sender)
    ELSE IF paused THEN "EnforcedPause"
    ELSE ""

pause(sender) ==
    /\ Ready
    /\ CanCall(sender)
    /\ paused' = IF PauseRevert(sender) = "" THEN TRUE ELSE paused
    /\ lastTx' = Tx("pause", sender, <<>>, 0, FALSE, PauseRevert(sender))
    /\ UNCHANGED <<handlerVars, callStack, owner, mintEnabled, maxSupply, totalMinted,
                   tokenOwner, metadata>>

UnpauseRevert(sender) ==
    IF onlyOwner(sender) # "" THEN onlyOwner(sender)
    ELSE IF ~paused THEN "ExpectedPause"
    ELSE ""

unpause(sender) ==
    /\ Ready
    /\ CanCall(sender)
    /\ paused' = IF UnpauseRevert(sender) = "" THEN FALSE ELSE paused
    /\ lastTx' = Tx("unpause", sender, <<>>, 0, FALSE, UnpauseRevert(sender))
    /\ UNCHANGED <<handlerVars, callStack, owner, mintEnabled, maxSupply, totalMinted,
                   tokenOwner, metadata>>

\* function renounceOwnership() public view override onlyOwner { revert(..); }
RenounceRevert(sender) ==
    IF onlyOwner(sender) # "" THEN onlyOwner(sender) ELSE "renounceOwnership disabled"

renounceOwnership(sender) ==
    /\ Ready
    /\ CanCall(sender)
    /\ owner' = IF RenounceRevert(sender) = "" THEN ZeroAddress ELSE owner
    /\ lastTx' = Tx("renounceOwnership", sender, <<>>, 0, FALSE, RenounceRevert(sender))
    /\ UNCHANGED <<handlerVars, callStack, paused, mintEnabled, maxSupply, totalMinted,
                   tokenOwner, metadata>>

\* transferOwnership(newOwner) of the inherited Ownable, called by `sender`
TransferRevert(sender, newOwner) ==
    IF onlyOwner(sender) # "" THEN onlyOwner(sender)
    ELSE IF newOwner = ZeroAddress THEN "OwnableInvalidOwner"
    ELSE ""

TransferOwnershipTx(sender, newOwner) ==
    /\ Ready
    /\ CanCall(sender)
    /\ owner' = IF TransferRevert(sender, newOwner) = "" THEN newOwner ELSE owner
    /\ lastTx' = Tx("transferOwnership", sender, <<newOwner>>, 0, FALSE,
                    TransferRevert(sender, newOwner))
    /\ UNCHANGED <<handlerVars, callStack, paused, mintEnabled, maxSupply, totalMinted,
                   tokenOwner, metadata>>

\* constructor(.., maxSupply_, .., initialOwner_, ..)
InitDeploy ==
    /\ owner \in {SIGNER, HOOK}
    /\ paused = FALSE
    /\ mintEnabled = TRUE
    /\ maxSupply \in SupplyArgs
    /\ totalMinted = 0
    /\ tokenOwner = <<>>
    /\ metadata = Deployed

InitContractSpec ==
    /\ variant = "api402"
    /\ env \in { e \in Envs : e.OWNER_PRIVATE_KEY /\ e.NFT_CONTRACT_ADDRESS }
    /\ receipts = [t \in TxHashes |-> NoReceipt]
    /\ latest = LatestBlock
    /\ processedTxs = {}
    /\ req = [r \in Slots |-> Idle]
    /\ InitDeploy
    /\ mintCalls = [t \in TxHashes |-> 0]
    /\ indeterminate = {}
    /\ detached = EmptyBag
    /\ callStack = <<>>
    /\ lastTx = NoTx

\* The outcome of the call that ended last has been taken note of, by the
\* account that sent the transaction or by the onERC721Received that made
\* the call.
Confirmed ==
    /\ lastTx # NoTx
    /\ lastTx' = NoTx
    /\ UNCHANGED <<handlerVars, callStack, contractVars>>

\* What HOOK does in onERC721Received before it answers: it calls the
\* contract, as its owner or not, with these arguments, and passes a token it
\* holds on to P1.
HookRecipients == {P1, HOOK}
HookQuantities == {0, 1}
HookLists == {<<P1>>, <<HOOK, P1>>}
HookTransfers == {[sender |-> HOOK, from |-> HOOK, safe |-> FALSE, approved |-> FALSE]}
FromHook(inProgram) == callStack # <<>> => inProgram

\* The transactions that mint, move tokens and gate minting, and the calls
\* made from onERC721Received.
NextContract ==
    \/ \E a \in Accounts, to \in Recipients, q \in Quantities :
          FromHook(to \in HookRecipients /\ q \in HookQuantities) /\ MintTx(a, to, q)
    \/ \E a \in Accounts, rs \in RecipientLists :
          FromHook(rs \in HookLists) /\ airdrop(a, rs)
    \/ \E a \in Accounts, b \in BOOLEAN : setMintEnabled(a, b)
    \/ \E a \in Accounts, n \in SupplyArgs : setMaxSupply(a, n)
    \/ \E a \in Accounts : pause(a)
    \/ \E a \in Accounts : unpause(a)
    \/ \E c \in TransferCalls, to \in Holders \cup {ZeroAddress}, id \in 1..SupplyBound :
          /\ FromHook(c \in HookTransfers /\ to = P1)
          /\ transferFrom(c.sender, c.from, to, id, c.safe, c.approved)
    \/ HookAnswers
    \/ \E reason \in HookData : HookRefuses(reason)
    \/ HookPropagates
    \/ Confirmed

SpecContract == InitContractSpec /\ [][NextContract]_vars

\* ------------------------- specification: the owner-only functions alone
\* Every function of the contract that carries onlyOwner, called by the owner
\* and by other accounts, and by HOOK from onERC721Received.
NextAdmin ==
    \/ \E a \in Accounts, to \in {P1, HOOK}, q \in {0, 1} : MintTx(a, to, q)
    \/ \E a \in Accounts, rs \in {<<>>, <<P1>>, <<HOOK, P1>>} : airdrop(a, rs)
    \/ \E a \in Accounts, b \in BOOLEAN : setMintEnabled(a, b)
    \/ \E a \in Accounts, ctx \in PaymentContexts : setPaymentContext(a, ctx)
    \/ \E a \in Accounts, uri \in BaseURIs : setBaseURI(a, uri)
    \/ \E a \in Accounts, n \in SupplyArgs : setMaxSupply(a, n)
    \/ \E a \in Accounts, royalty \in Royalties : setDefaultRoyalty(a, royalty)
    \/ \E a \in Accounts : pause(a)
    \/ \E a \in Accounts : unpause(a)
    \/ \E a \in Accounts : renounceOwnership(a)
    \/ \E a \in Accounts, n \in Owners \cup {ZeroAddress} : TransferOwnershipTx(a, n)
    \/ HookAnswers
    \/ \E reason \in HookData : HookRefuses(reason)
    \/ HookPropagates
    \/ Confirmed

SpecAdmin == InitContractSpec /\ [][NextAdmin]_vars

\* --------------------------- specification: findLatestUsdcPaymentTxHash
\* api/402.js serving POSTs that carry a payer and no txHash, over ledgers
\* whose head lies before, inside and beyond the lookback window of the two
\* payments; a receipt in a block above the head is not mined yet.
Heads == {BlockAA + 50, LatestBlock, LookbackBlocks + BlockAA,
          LookbackBlocks + BlockAA + 1, LookbackBlocks + BlockBB + 1}
DiscoveryHints == {p1, P2}

InitDiscovery ==
    /\ variant = "api402"
    /\ env \in { e \in EnvsVerify : e.X402_PRICE_USDC = "" }
    /\ \E bb \in ReceiptsBB : receipts = [t \in TxHashes |-> IF t = "0xAA" THEN ReceiptAA ELSE bb]
    /\ latest \in Heads
    /\ processedTxs = {}
    /\ req = [r \in Slots |-> Idle]
    /\ InitContract
    /\ mintCalls = [t \in TxHashes |-> 0]
    /\ indeterminate = {}
    /\ detached = EmptyBag
    /\ callStack = <<>>
    /\ lastTx = NoTx

\* POST with the x-402-payer header and no txHash
ArriveDiscovery(r) ==
    /\ Quiet
    /\ req[r].pc = "idle"
    /\ \A q \in Slots : q < r => req[q].pc # "idle"
    /\ \E header \in DiscoveryHints :
          req' = [req EXCEPT ![r] =
                    handler("POST", [txHash |-> "", resource |-> DefaultResource],
                            header, NullAddr)]
    /\ UNCHANGED <<handlerFrame, lastTx, callStack, detached, contractVars, processedTxs, mintCalls, indeterminate>>

\* The ledger grows: provider.getBlockNumber() returns more from now on.
NewBlock ==
    /\ Quiet
    /\ \E h \in Heads : h > latest /\ latest' = h
    /\ UNCHANGED <<variant, env, receipts, lastTx, callStack, detached, contractVars, processedTxs, req,
                   mintCalls, indeterminate>>

NextDiscovery ==
    \/ \E r \in Slots : ArriveDiscovery(r)
    \/ NewBlock
    \/ \E r \in Slots : BlockNumberReturns(r)
    \/ \E r \in Slots : GetLogsReturns(r)
    \/ \E r \in Slots : DiscoveryReturns(r)
    \/ \E r \in Slots : ReceiptReturns(r)
    \/ \E r \in Slots : OwnerReturns(r)
    \/ \E r \in Slots : SendReturns(r)
    \/ \E r \in Slots : Mine(r)
    \/ \E r \in Slots : WaitReturns(r)
    \/ \E r \in Slots : Release(r)

SpecDiscovery == InitDiscovery /\ [][NextDiscovery]_vars

\* ------------------------------------------ specification: the handler in time
\* The handler over behaviours without end. Requests carry the default
\* resource, no query parameter, and a txHash or none (discovery for payer P1
\* finds 0xAA); 0xBB is unknown to the ledger, so that its verification throws;
\* the contract keeps its owner.
InitLive ==
    /\ Init
    /\ env.NFT_CONTRACT_ADDRESS
    /\ ~receipts["0xBB"].found

ArriveLive(r) ==
    /\ Quiet
    /\ req[r].pc = "idle"
    /\ \A q \in Slots : q < r => req[q].pc # "idle"
    /\ \E method \in Methods, txHash \in TxHashes \cup {""}, header \in {NullAddr, p1} :
          req' = [req EXCEPT ![r] =
                    handler(method, [txHash |-> txHash, resource |-> DefaultResource],
                            header, NullAddr)]
    /\ UNCHANGED <<handlerFrame, lastTx, callStack, detached, contractVars, processedTxs, mintCalls, indeterminate>>

\* The promise the invocation in slot r awaits settles and the handler runs on.
Settle(r) ==
    \/ BlockNumberReturns(r)
    \/ GetLogsReturns(r)
    \/ DiscoveryReturns(r)
    \/ ReceiptReturns(r)
    \/ OwnerReturns(r)
    \/ SendReturns(r)
    \/ RpcFails(r)
    \/ WaitReturns(r)
    \/ WaitFails(r)

NextLive ==
    \/ \E r \in Slots : ArriveLive(r)
    \/ \E r \in Slots : Settle(r)
    \/ \E r \in Slots : Mine(r)
    \/ \E r \in Slots : Release(r)
    \/ MineDetached

\* What the runtime sees to by itself: a response that was written is
\* delivered and its invocation ends. Neither handler sets a timeout on a call
\* it awaits (provider reads, nft.owner(), the send, tx.wait()), so nothing
\* makes an awaited call settle or a broadcast transaction be included.
Fairness == \A r \in Slots : WF_vars(Release(r))

SpecLive == InitLive /\ [][NextLive]_vars /\ Fairness

\* ------------------------------------------------------------------ claims
Misconfigured == ~env.OWNER_PRIVATE_KEY \/ ~env.NFT_CONTRACT_ADDRESS
IsPost(r) == req[r].pc # "idle" /\ req[r].method = "POST"
Done(r) == req[r].pc = "done"

\* C1: at most one nft.mintAfterPayment call is ever issued for a txHash,
\* however the requests that carry it are interleaved.
C1_AtMostOneMintCallPerTx == \A t \in TxHashes : mintCalls[t] <= 1

\* C2: a POST that arrives after the mint for its txHash was broadcast and the
\* wait for it failed issues no fresh nft.mintAfterPayment call.
C2_NoFreshMintAfterFailedWait ==
    \A r \in Slots : (IsPost(r) /\ req[r].late) => req[r].call = NoCall

\* A POST arrives in slot r carrying a txHash that is in processedTxs.
ArrivesProcessed(r) ==
    /\ req[r].pc = "idle"
    /\ req'[r].pc # "idle"
    /\ req'[r].method = "POST"
    /\ req'[r].body.txHash \in processedTxs

AnsweredAlreadyProcessed(r) ==
    /\ req'[r].pc = "done"
    /\ req'[r].res = AlreadyProcessed(req'[r].body.txHash)
    /\ req'[r].call = NoCall
    /\ UNCHANGED <<processedTxs, mintCalls, contractVars>>

\* C3 as stated: every POST with a processed txHash is answered 200
\* { ok, note: 'Already processed', txHash } with no mint call and no change
\* to the processed set.
C3_EveryLaterPostAlreadyProcessed ==
    [][\A r \in Slots : ArrivesProcessed(r) => AnsweredAlreadyProcessed(r)]_vars

\* The resource-checking variant turns the POST away for its resource field:
\* 400, no mint call, no change to the processed set.
AnsweredBadResource(r) ==
    /\ req'[r].pc = "done"
    /\ req'[r].res = ErrorResponse(400, IF req'[r].body.resource = ""
                                        THEN "Missing resource or txHash"
                                        ELSE "Invalid resource")
    /\ req'[r].call = NoCall
    /\ UNCHANGED <<processedTxs, mintCalls, contractVars>>

\* C3 amended: every POST with a processed txHash is answered 200
\* { ok, note: 'Already processed', txHash } with no mint call and no change
\* to the processed set, unless the handler is the resource-checking variant
\* and the resource field of the POST is missing or differs from the
\* configured one: then it is answered 400 before the processed set is looked
\* at, again with no mint call and no change to the set (api/402.js reads no
\* resource field).
C3_LaterPostAlreadyProcessed ==
    [][\A r \in Slots :
          ArrivesProcessed(r) =>
             IF variant = "part002" /\ req'[r].body.resource # ConfiguredResource
             THEN AnsweredBadResource(r)
             ELSE AnsweredAlreadyProcessed(r)]_vars

C3_Witness ==
    \E r \in Slots :
        /\ Done(r) /\ req[r].method = "POST"
        /\ req[r].body.txHash \in processedTxs
        /\ req[r].res = AlreadyProcessed(req[r].body.txHash)
        /\ totalMinted = 1

\* C4: every nft.mintAfterPayment call has quantity 1 and as recipient the
\* payer verifyUsdcPayment derives from the request's txHash, whatever payer
\* hint came with the request; mintedTo of the success response is that address.
C4_MintToVerifiedPayer ==
    \A r \in Slots :
        /\ req[r].call # NoCall =>
              /\ req[r].call.quantity = 1
              /\ verifyUsdcPayment(req[r].txHash).ok
              /\ req[r].call.payer = verifyUsdcPayment(req[r].txHash).value
        /\ (Done(r) /\ req[r].res.note = "Minted") =>
              /\ req[r].call # NoCall
              /\ req[r].res.mintedTo = verifyUsdcPayment(req[r].txHash).value

\* A token was minted to P1 on a request that named P2 as the payer.
C4_Witness ==
    \E r \in Slots :
        /\ Done(r) /\ req[r].res.note = "Minted"
        /\ req[r].payerHint = p2
        /\ req[r].res.mintedTo = P1
        /\ tokenOwner = <<P1>>

\* The qualifying transfers of a receipt, by position in its logs: logs of the
\* configured asset that are Transfer events to the treasury.
QualifyingAt(rc) ==
    { i \in 1..Len(rc.logs) :
        /\ rc.logs[i].address.acct = env.USDC_ADDRESS.acct
        /\ rc.logs[i].event = "Transfer"
        /\ rc.logs[i].to.acct = env.TREASURY_ADDRESS.acct }

RECURSIVE SumAt(_, _)
SumAt(rc, S) ==
    IF S = {} THEN 0
    ELSE LET i == CHOOSE j \in S : TRUE IN rc.logs[i].value + SumAt(rc, S \ {i})

FirstOf(S) == CHOOSE i \in S : \A j \in S : i <= j

\* verifyUsdcPayment has returned or thrown in the invocation of slot r.
VerifyEnded(r) ==
    /\ IsPost(r)
    /\ req[r].pc # "receipt"
    /\ req[r].txHash # ""
    /\ req[r].res.note # "Already processed"

VerifyThrew(r, msg) == Done(r) /\ req[r].res.status = 500 /\ req[r].res.error = msg

NoTransferMsg == "No USDC Transfer to TREASURY found in tx"

C5_Payer ==
    \A r \in Slots : VerifyEnded(r) =>
        LET rc == receipts[req[r].txHash]
            Q == QualifyingAt(rc)
        IN  (rc.found /\ rc.status = 1 /\ Q # {} /\ SumAt(rc, Q) >= PRICE)
            => req[r].payer = Addr(rc.logs[FirstOf(Q)].from.acct, "checksum")

C5_VerifyChangesNothing ==
    \A r \in Slots :
        (req[r].pc = "receipt" /\ req'[r].pc # "receipt")
        => UNCHANGED <<receipts, processedTxs, contractVars, indeterminate>>

\* C5: for a successful receipt whose qualifying transfers sum to at least the
\* price, verifyUsdcPayment returns the source of the first qualifying transfer
\* in log order, the sum being taken over all of them whatever their sources;
\* the call changes neither the ledger, the processed set nor the contract.
C5_FirstPayerOfSufficientSum == []C5_Payer /\ [][C5_VerifyChangesNothing]_vars

\* Two transfers from different sources, the first from P2: the payer is P2
\* and the token was minted to it.
C5_Witness ==
    \E r \in Slots :
        LET rc == receipts[req[r].txHash] IN
        /\ VerifyEnded(r) /\ req[r].tx = "success"
        /\ Cardinality(QualifyingAt(rc)) = 2
        /\ rc.logs[FirstOf(QualifyingAt(rc))].from = p2
        /\ \E i \in QualifyingAt(rc) : rc.logs[i].from = p1
        /\ PRICE = DefaultPrice
        /\ req[r].payer = P2

\* C6: for a successful receipt verifyUsdcPayment throws the no-transfer error
\* exactly when no transfer qualifies (also when the price is 0) and the
\* insufficient-amount error exactly when some qualify and their sum is below
\* the price; neither request issues a mint call.
C6_VerifyErrors ==
    \A r \in Slots : VerifyEnded(r) =>
        LET rc == receipts[req[r].txHash]
            Q == QualifyingAt(rc)
        IN  (rc.found /\ rc.status = 1) =>
            /\ VerifyThrew(r, NoTransferMsg) <=> Q = {}
            /\ VerifyThrew(r, "Insufficient amount") <=> (Q # {} /\ SumAt(rc, Q) < PRICE)
            /\ VerifyThrew(r, "Insufficient amount") =>
                  (req[r].res.paid = SumAt(rc, Q) /\ req[r].res.required = PRICE)
            /\ (VerifyThrew(r, NoTransferMsg) \/ VerifyThrew(r, "Insufficient amount"))
                  => (req[r].call = NoCall /\ req[r].tx = "none"
                      /\ mintCalls[req[r].txHash] = 0)

\* The price is 0 and a receipt with logs, none of them qualifying, is refused.
C6_Witness ==
    \E r \in Slots :
        /\ VerifyEnded(r) /\ VerifyThrew(r, NoTransferMsg)
        /\ PRICE = 0
        /\ Len(receipts[req[r].txHash].logs) = 2

\* C7: a request that reaches the dispatch step while the handler's wallet is
\* not the contract's owner ends with the authority-mismatch error: when the
\* contract has rejected its mint call for authority and tx.wait() has
\* delivered that verdict, the response is the 400 of the owner pre-check.
C7_MismatchReported ==
    \A r \in Slots :
        (Done(r) /\ req[r].tx = "OwnableUnauthorizedAccount" /\ req[r].res.error # "timeout")
        => (req[r].res.status = 400 /\ req[r].res.error = NotOwnerMsg)

\* C8: a POST whose resource field is not the configured identifier makes no
\* Chain Reader call and no mint call.
C8_ResourceCheckedBeforeChain ==
    \A r \in Slots :
        (IsPost(r) /\ req[r].body.resource # ConfiguredResource)
        => (req[r].reads = 0 /\ req[r].call = NoCall)

VerificationErrors ==
    {"Transaction not found", "Transaction failed", "Transaction failed on-chain",
     NoTransferMsg, "Insufficient amount", "No recent USDC payment from payer to treasury"}

\* C9: a POST whose payment verification fails is answered with a status
\* between 400 and 499.
C9_VerificationFailureIs4xx ==
    \A r \in Slots :
        (Done(r) /\ IsPost(r) /\ req[r].res.error \in VerificationErrors)
        => (req[r].res.status >= 400 /\ req[r].res.status <= 499)

\* C10: with OWNER_PRIVATE_KEY or NFT_CONTRACT_ADDRESS missing every POST is
\* answered 500 'Server misconfigured' at once: no chain read, no mint call,
\* nothing added to the processed set.
C10_MisconfiguredPost ==
    Misconfigured =>
        /\ \A r \in Slots : IsPost(r) =>
              /\ Done(r)
              /\ req[r].res = ErrorResponse(500, MisconfiguredMsg)
              /\ req[r].reads = 0
              /\ req[r].call = NoCall
        /\ processedTxs = {}
        /\ \A t \in TxHashes : mintCalls[t] = 0
        /\ totalMinted = 0

\* The key is set, the contract address is not, and a POST with a valid proof
\* was answered.
C10_Witness ==
    \E r \in Slots :
        /\ env.OWNER_PRIVATE_KEY /\ ~env.NFT_CONTRACT_ADDRESS
        /\ Done(r) /\ IsPost(r)
        /\ req[r].body = [txHash |-> "0xAA", resource |-> DefaultResource]
        /\ req[r].res.status = 500

\* ------------------------------------------------- claims on the contract
\* A call to the contract ends in this step: it returns or reverts.
ContractCall == lastTx' # NoTx /\ lastTx' # lastTx
\* The call that ends in this step ends in the step it was made in: it has
\* not reached onERC721Received of HOOK.
EntryCall == ContractCall /\ callStack' = callStack
MintingCall == ContractCall /\ lastTx'.fn \in {"mintAfterPayment", "airdrop"}
\* The storage when the call that ends in this step was made, and when it ends.
Before == IF callStack' = callStack THEN ContractState ELSE callStack[Len(callStack)].saved
After == ContractState'
\* Whether a mintAfterPayment or airdrop call was in progress when the call
\* that ends in this step was made.
EnteredBefore ==
    \E k \in 1..lastTx'.depth : callStack[k].call.fn \in {"mintAfterPayment", "airdrop"}
\* The storage between transactions: that of the state when no transaction is
\* in execution, else that from which the transaction in execution started.
Committed == IF callStack = <<>> THEN ContractState ELSE callStack[1].saved

\* Every function of the contract that carries onlyOwner.
OwnerOnlyFunctions ==
    {"mintAfterPayment", "airdrop", "setMintEnabled", "setPaymentContext", "setBaseURI",
     "setMaxSupply", "setDefaultRoyalty", "pause", "unpause", "renounceOwnership",
     "transferOwnership"}

\* C11: between transactions totalMinted <= maxSupply holds in every reachable
\* state of the contract, and totalMinted never decreases from one such state
\* to the next, whatever sequence of mintAfterPayment, airdrop, setMaxSupply,
\* setMintEnabled, pause and unpause calls is made.
C11_SupplyBounded ==
    /\ [](Committed.totalMinted <= Committed.maxSupply)
    /\ [][Committed'.totalMinted >= Committed.totalMinted]_vars

\* The owner calls mintAfterPayment while the contract is not paused; the
\* call ends in this step.
OwnerMintCall ==
    /\ ContractCall
    /\ lastTx'.fn = "mintAfterPayment"
    /\ lastTx'.sender = Before.owner
    /\ ~Before.paused

C12_ClaimedError(st, quantity) ==
    IF ~st.mintEnabled THEN "MintDisabled"
    ELSE IF quantity = 0 THEN "QuantityZero"
    ELSE IF st.totalMinted >= st.maxSupply THEN "SoldOut"
    ELSE IF st.totalMinted + quantity > st.maxSupply THEN "MaxSupplyExceeded"
    ELSE ""

C12_AmendedError(st, entered, quantity) ==
    IF entered THEN "ReentrancyGuardReentrantCall"
    ELSE IF ~st.mintEnabled THEN "MintDisabled"
    ELSE IF quantity = 0 THEN "QuantityZero"
    ELSE IF st.totalMinted >= st.maxSupply THEN "SoldOut"
    ELSE IF st.totalMinted + quantity > MaxUint THEN "Panic"
    ELSE IF st.totalMinted + quantity > st.maxSupply THEN "MaxSupplyExceeded"
    ELSE ""

\* C12 as stated: mintAfterPayment called by the owner while not paused rejects
\* with MintDisabled when minting is disabled, otherwise QuantityZero when
\* quantity is 0, otherwise SoldOut when totalMinted >= maxSupply, otherwise
\* MaxSupplyExceeded when totalMinted + quantity > maxSupply; every rejection
\* leaves totalMinted and token ownership unchanged.
C12_RejectionOrder ==
    [][OwnerMintCall =>
         /\ C12_ClaimedError(Before, lastTx'.quantity) # ""
               => lastTx'.revert = C12_ClaimedError(Before, lastTx'.quantity)
         /\ lastTx'.revert # "" => After = Before]_vars

\* C12, amended: mintAfterPayment called by the owner while not paused is
\* rejected with ReentrancyGuardReentrantCall when a mintAfterPayment or
\* airdrop call is in progress (the call comes from onERC721Received of a
\* recipient); otherwise with MintDisabled when minting is disabled, otherwise
\* QuantityZero when quantity is 0, otherwise SoldOut when totalMinted >=
\* maxSupply, otherwise by the arithmetic check when totalMinted + quantity
\* overflows, otherwise MaxSupplyExceeded when totalMinted + quantity >
\* maxSupply. Every rejection, those of a recipient included, leaves
\* totalMinted, token ownership and the rest of the storage as they were when
\* the call was made.
C12_RejectionOrderInRange ==
    [][OwnerMintCall =>
         /\ C12_AmendedError(Before, EnteredBefore, lastTx'.quantity) # ""
               => lastTx'.revert = C12_AmendedError(Before, EnteredBefore, lastTx'.quantity)
         /\ lastTx'.revert # "" => After = Before]_vars

\* The owner, a contract, asked for a token from onERC721Received while its
\* own mint was in progress and minting was enabled, and was turned away by
\* the guard.
C12_Witness ==
    /\ lastTx.fn = "mintAfterPayment"
    /\ lastTx.sender = owner
    /\ lastTx.depth = 1
    /\ lastTx.quantity = 1
    /\ ~paused
    /\ mintEnabled
    /\ Entered
    /\ lastTx.revert = "ReentrancyGuardReentrantCall"

\* C13: a call of mintAfterPayment, airdrop or an administrative function by an
\* account that is not the current owner leaves the contract's state unchanged;
\* renounceOwnership always reverts; the owner is never the zero address.
C13_OnlyOwner ==
    /\ [](owner # ZeroAddress)
    /\ [][/\ ( /\ ContractCall
               /\ lastTx'.fn \in OwnerOnlyFunctions
               /\ lastTx'.sender # Before.owner )
               => /\ lastTx'.revert = "OwnableUnauthorizedAccount"
                  /\ After = Before
                  /\ UNCHANGED contractVars
          /\ ContractCall /\ After # Before /\ lastTx'.revert = ""
               => lastTx'.fn \in OwnerOnlyFunctions /\ lastTx'.sender = Before.owner
          /\ ContractCall /\ lastTx'.fn = "renounceOwnership"
               => lastTx'.revert # "" /\ UNCHANGED contractVars]_vars

\* An account that is not the owner called setDefaultRoyalty after the owner
\* had set the royalty, the base URI and the payment context.
C13_Witness ==
    /\ lastTx.fn = "setDefaultRoyalty"
    /\ lastTx.sender # owner
    /\ lastTx.revert = "OwnableUnauthorizedAccount"
    /\ metadata.defaultRoyalty # Deployed.defaultRoyalty
    /\ metadata.baseTokenURI # Deployed.baseTokenURI
    /\ metadata.usdcToken # Deployed.usdcToken

\* The i-th recipient of a minting call.
RecipientOf(tx, i) == IF tx.fn = "airdrop" THEN tx.recipients[i] ELSE tx.recipients[1]

C14_Step ==
    MintingCall /\ lastTx'.revert = "" =>
        LET q == lastTx'.quantity
            first == Before.totalMinted
            ids == (first + 1)..(first + q)
        IN  /\ lastTx'.minted = first
            /\ After.totalMinted = first + q
            /\ ids \cap DOMAIN Before.tokenOwner = {}
            /\ DOMAIN After.tokenOwner = DOMAIN Before.tokenOwner \cup ids
            /\ lastTx'.assigned =
                  [i \in 1..q |-> [id |-> first + i, to |-> RecipientOf(lastTx', i)]]
            /\ (\A i \in 1..q : RecipientOf(lastTx', i) # HOOK)
                  => /\ EntryCall
                     /\ \A i \in 1..q : After.tokenOwner[first + i] = RecipientOf(lastTx', i)
                     /\ \A id \in DOMAIN Before.tokenOwner :
                           After.tokenOwner[id] = Before.tokenOwner[id]

C15_Step ==
    /\ MintingCall /\ Before.paused
          => After.totalMinted = Before.totalMinted /\ After.tokenOwner = Before.tokenOwner
    /\ MintingCall /\ lastTx'.fn = "mintAfterPayment" /\ ~Before.mintEnabled
          => After.totalMinted = Before.totalMinted /\ After.tokenOwner = Before.tokenOwner
    /\ ( /\ MintingCall
         /\ lastTx'.sender = Before.owner
         /\ ~Before.paused
         /\ ~EnteredBefore
         /\ lastTx'.fn = "mintAfterPayment" => Before.mintEnabled
         /\ lastTx'.quantity >= 1
         /\ \A i \in 1..lastTx'.quantity : RecipientOf(lastTx', i) = P1
         /\ Before.totalMinted + lastTx'.quantity <= Before.maxSupply )
          => After.totalMinted = Before.totalMinted + lastTx'.quantity

\* C15, the calls made: a mintAfterPayment or airdrop call made while the
\* contract is paused (a mintAfterPayment call made while minting is disabled)
\* changes neither totalMinted nor token ownership; when the contract is not
\* paused and no minting call is in progress the owner's calls within
\* capacity for recipients without code mint.
C15_GateAtEntry == [][C15_Step]_vars

\* C15: while the contract is paused no mintAfterPayment or airdrop call changes
\* totalMinted or token ownership, and while minting is disabled no
\* mintAfterPayment call does: no transaction that went through has minted a
\* token at a moment at which the gate was closed.
C15_PauseGatesMinting ==
    /\ [](~(lastTx.gateClosed /\ lastTx.revert = "" /\ lastTx.depth = 0))
    /\ [][C15_Step]_vars

\* -------------------------------------------- further claims on the handler
\* The invocation in slot r ends in this step with an error response.
EndsInFailure(r) ==
    /\ req[r].pc \notin {"idle", "done"}
    /\ req'[r].pc = "done"
    /\ req'[r].res.status >= 400

C16_Step ==
    /\ processedTxs \subseteq processedTxs'
    /\ processedTxs' # processedTxs =>
          \E r \in Slots :
              /\ req[r].pc = "wait"
              /\ req[r].call # NoCall
              /\ req[r].tx = "success"
              /\ processedTxs' = processedTxs \cup {req[r].txHash}
              /\ req'[r].res = Minted(req[r].payer)
    /\ \A r \in Slots : EndsInFailure(r) => processedTxs' = processedTxs

\* C16: the processed set holds only txHashes for which a mint call of the
\* handler was confirmed (a txHash enters it in the step in which tx.wait()
\* delivers success for that request's call); a request that ends in a failure
\* leaves the set unchanged; no txHash is ever removed.
C16_ProcessedOnlyAfterConfirmedMint ==
    /\ [](\A t \in processedTxs : mintCalls[t] >= 1)
    /\ [](Cardinality(processedTxs) <= totalMinted)
    /\ [][C16_Step]_vars

\* One txHash is processed and a request for the other failed after its mint
\* call was issued.
C16_Witness ==
    \E r \in Slots :
        /\ processedTxs # {}
        /\ Done(r)
        /\ req[r].res.status = 500
        /\ req[r].call # NoCall
        /\ req[r].txHash \notin processedTxs

\* The invocation in slot r has run the Payment Verifier to success.
Verified(r) ==
    /\ req[r].payer # NullAddr
    /\ verifyUsdcPayment(req[r].txHash).ok
    /\ req[r].payer = verifyUsdcPayment(req[r].txHash).value

\* The invocation in slot r took the discovery path and discovery has ended.
Discovered(r) == req[r].body.txHash = "" /\ req[r].txHash # "" /\ req[r].latestRead # 0

\* No mint call without a successful verification in the same request; a
\* failure of discovery or of verification ends the request with no later step.
C17_ShortCircuit ==
    \A r \in Slots : IsPost(r) =>
        /\ req[r].call # NoCall => Verified(r)
        /\ req[r].pc \in {"owner", "send", "wait"} => Verified(r)
        /\ (req[r].txHash # "" /\ req[r].body.txHash = "") => Discovered(r)
        /\ (Done(r) /\ req[r].res.error \in VerificationErrors)
              => (req[r].call = NoCall /\ req[r].tx = "none" /\ req[r].payer = NullAddr)
        /\ (Done(r) /\ req[r].res.error = "No recent USDC payment from payer to treasury")
              => (req[r].txHash = "" /\ req[r].reads = 2)
        /\ (Done(r) /\ req[r].res.error = NotOwnerMsg) => req[r].call = NoCall

\* C17 as stated: the steps run in the order Payment Discovery, Payment
\* Verifier, Idempotency Ledger check, Mint Dispatcher, with no later step after
\* a failure: a request answered by the ledger check has run the verifier.
C17_VerifierBeforeLedger ==
    /\ C17_ShortCircuit
    /\ \A r \in Slots :
          (Done(r) /\ req[r].res.note = "Already processed") => Verified(r)

\* C17, amended: the steps run in the order Payment Discovery, Idempotency
\* Ledger check, Payment Verifier, Mint Dispatcher: a request answered
\* 'Already processed' has run discovery when it carried no txHash and has not
\* fetched the receipt. A failure at any step ends the request without any
\* later step, and no mint call is issued without a successful verification of
\* the txHash in the same request.
C17_LedgerBeforeVerifier ==
    /\ C17_ShortCircuit
    /\ \A r \in Slots :
          (Done(r) /\ req[r].res.note = "Already processed") =>
              /\ req[r].payer = NullAddr
              /\ req[r].call = NoCall
              /\ req[r].reads = IF req[r].body.txHash = "" THEN 2 ELSE 0
              /\ req[r].body.txHash = "" => Discovered(r)

\* A discovery POST found a processed payment: discovery ran, the receipt was
\* not fetched.
C17_Witness ==
    \E r \in Slots :
        /\ Done(r)
        /\ req[r].res.note = "Already processed"
        /\ req[r].body.txHash = ""
        /\ req[r].txHash \in processedTxs
        /\ req[r].reads = 2

\* C18: verifyUsdcPayment throws the transaction-not-found error when the
\* ledger has no receipt for the txHash and the transaction-failed error when
\* the receipt's status is not success, whatever the logs hold: no payer is
\* returned and no mint call is issued for the txHash.
C18_ReceiptChecksFirst ==
    \A r \in Slots : VerifyEnded(r) =>
        LET rc == receipts[req[r].txHash] IN
        /\ ~rc.found => VerifyThrew(r, "Transaction not found")
        /\ (rc.found /\ rc.status # 1) => VerifyThrew(r, TxFailedMsg)
        /\ (~rc.found \/ rc.status # 1) =>
              /\ req[r].payer = NullAddr
              /\ req[r].call = NoCall
              /\ req[r].tx = "none"
              /\ mintCalls[req[r].txHash] = 0
              /\ tokenOwner = <<>>

\* A reverted transaction whose logs list transfers to the treasury that sum to
\* the price is refused.
C18_Witness ==
    \E r \in Slots :
        LET rc == receipts[req[r].txHash] IN
        /\ VerifyEnded(r)
        /\ VerifyThrew(r, TxFailedMsg)
        /\ rc.found /\ rc.status = 0
        /\ QualifyingAt(rc) # {}
        /\ PRICE = DefaultPrice
        /\ SumAt(rc, QualifyingAt(rc)) >= PRICE

\* The successful transactions with a transfer of the configured asset from
\* payer to the treasury in a block of [max(0, head - 50000), head].
PaymentsInWindow(payer, head) ==
    { t \in TxHashes :
        LET rc == receipts[t] IN
        /\ rc.found /\ rc.status = 1
        /\ rc.block >= (IF head - LookbackBlocks > 0 THEN head - LookbackBlocks ELSE 0)
        /\ rc.block <= head
        /\ \E i \in 1..Len(rc.logs) :
              /\ rc.logs[i].address.acct = env.USDC_ADDRESS.acct
              /\ rc.logs[i].event = "Transfer"
              /\ rc.logs[i].from.acct = payer.acct
              /\ rc.logs[i].to.acct = env.TREASURY_ADDRESS.acct }

LastPayment(W) == CHOOSE t \in W : \A u \in W : receipts[u].block <= receipts[t].block

C19_Step ==
    \A r \in Slots :
        /\ (Quiet /\ req[r].pc = "blockNumber" /\ req'[r].pc # "blockNumber")
              => req'[r].latestRead = latest
        /\ (Quiet /\ req[r].pc = "getLogs" /\ req'[r].pc # "getLogs") =>
              LET W == PaymentsInWindow(req[r].payerHint, req[r].latestRead) IN
              /\ req'[r].pc = "discovered"
              /\ req'[r].txHash = IF W = {} THEN "" ELSE LastPayment(W)
        /\ (Quiet /\ req[r].pc = "discovered" /\ req'[r].pc # "discovered") =>
              LET W == PaymentsInWindow(req[r].payerHint, req[r].latestRead) IN
              IF W = {}
              THEN /\ req'[r].pc = "done"
                   /\ req'[r].res =
                         ErrorResponse(500, "No recent USDC payment from payer to treasury")
                   /\ req'[r].txHash = ""
              ELSE /\ req'[r].txHash = LastPayment(W)
                   /\ req'[r].res.error = ""
                   /\ IF LastPayment(W) \in processedTxs
                      THEN /\ req'[r].pc = "done"
                           /\ req'[r].res = AlreadyProcessed(LastPayment(W))
                           /\ req'[r].call = NoCall
                           /\ UNCHANGED <<processedTxs, mintCalls, contractVars>>
                      ELSE req'[r].pc = "receipt"

\* C19: findLatestUsdcPaymentTxHash(payer) scans the blocks
\* [max(0, latest - 50000), latest], latest being the head it read, for
\* transfers of the configured asset from payer to the treasury and returns the
\* transaction of the last log; it throws the no-recent-payment error exactly
\* when there is none; when that transaction is processed the POST is answered
\* 'Already processed' and nothing is minted.
C19_DiscoveryWindow == [][C19_Step]_vars

\* The payer's latest payment is processed and an older one, inside the
\* window, is not: the discovery POST is answered 'Already processed'.
C19_Witness ==
    \E r \in Slots :
        /\ Done(r)
        /\ req[r].body.txHash = ""
        /\ req[r].res = AlreadyProcessed("0xBB")
        /\ req[r].payerHint = p1
        /\ "0xAA" \notin processedTxs
        /\ "0xAA" \in PaymentsInWindow(req[r].payerHint, req[r].latestRead)

\* The slot r is freed, or taken over by the invocation behind it, in this step.
Released(r) ==
    /\ Done(r)
    /\ req'[r] = IF r + 1 \in Slots THEN req[r + 1] ELSE Idle

C20_OneResponse ==
    \A r \in Slots :
        /\ Done(r) => (Released(r) \/ (req'[r].pc = "done" /\ req'[r].res = req[r].res))
        /\ (~Done(r) /\ req'[r].pc = "done") => req'[r].res # NoResponse

\* C20: every request, whatever its method, ends with a response on every
\* path, also when a chain read, the mint call or the wait for it throws (slot
\* 1 holds the oldest invocation in progress until it has responded; the
\* invocation in slot 2 responds there or moves up to slot 1); a response is
\* sent once, and no invocation runs on after its response.
C20_EveryRequestAnswered ==
    /\ (req[1].pc # "idle") ~> (req[1].pc = "done")
    /\ (req[2].pc # "idle") ~> (req[2].pc = "done" \/ req[2].pc = "idle")
    /\ [](\A r \in Slots : Done(r) <=> req[r].res # NoResponse)
    /\ [][C20_OneResponse]_vars

\* C20, what holds of the requests that are answered: a response is sent
\* once, an invocation that has responded does nothing more, and the
\* invocations that have responded are those holding a response.
C20_AtMostOneResponse ==
    /\ [](\A r \in Slots : Done(r) <=> req[r].res # NoResponse)
    /\ [][C20_OneResponse]_vars

====
